---- MODULE Spec2Model ----
(***************************************************************************)
(* The incremental image cache of the altair gallery extension:            *)
(* make_images (doc/sphinxext/altair_ext/altairgallery.py) run as a        *)
(* sequence of passes over one image directory.  One pass loads the hash   *)
(* ledger, walks the examples in order, and saves the ledger.              *)
(***************************************************************************)
EXTENDS Integers, Sequences, FiniteSets, TLC

\* ---------------------------------------------------------------- bounds
NumExamples == 2
MaxPasses == 2

Examples == 1..NumExamples

\* ------------------------------------------------- example specifications
\* example['spec'] is a dict: a mapping from keys to values, with no order.
Specs ==
  { [mark |-> "bar", x |-> "a"],
    [mark |-> "line", x |-> "a"] }

\* dict_hash: the digest of the dict serialized with its keys sorted, here
\* the serialization itself, the key/value pairs in key order.
SortedKeys == <<"mark", "x">>
dict_hash(spec) ==
  [k \in DOMAIN SortedKeys |-> <<SortedKeys[k], spec[SortedKeys[k]]>>]

Hashes == { dict_hash(s) : s \in Specs }

\* hashes.get(filename, '') : the empty string stands for "no entry".
NoEntry == <<>>
EmptyLedger == [e \in Examples |-> NoEntry]
Get(ledger, e) == ledger[e]
NonEmpty(ledger) == \E e \in Examples : ledger[e] # NoEntry
Entries(ledger) == { e \in Examples : ledger[e] # NoEntry }

\* ------------------------------------------------------------------ files
NoSpec == [mark |-> "", x |-> ""]
Absent == [kind |-> "absent", src |-> NoSpec]
Placeholder == [kind |-> "placeholder", src |-> NoSpec]
Rendered(spec) == [kind |-> "rendered", src |-> spec]

NoFile == [state |-> "absent", data |-> EmptyLedger]
Truncated == [state |-> "corrupt", data |-> EmptyLedger]
Saved(ledger) == [state |-> "ok", data |-> ledger]

\* ------------------------------------------------- gallery zoom parameter
\* galleryParameters.backgroundSize as a string of characters; <<>> stands
\* for a missing parameter.
Digits == {"0", "1", "2", "3", "4", "5", "6", "7", "8", "9"}
Contains == <<"c", "o", "n", "t", "a", "i", "n", "s">>
ZoomParams ==
  { <<>>, Contains, <<"5", "0", "%">>, <<"c", "o", "v", "e", "r">> }

RECURSIVE StripLeft(_), StripRight(_)
StripLeft(x) ==
  IF x # <<>> /\ Head(x) = "%" THEN StripLeft(Tail(x)) ELSE x
StripRight(x) ==
  IF x # <<>> /\ x[Len(x)] = "%" THEN StripRight(SubSeq(x, 1, Len(x) - 1)) ELSE x
Strip(x) == StripRight(StripLeft(x))

\* int(s) raises ValueError unless s is a non-empty string of digits.
IntParses(s) == s # <<>> /\ \A k \in DOMAIN s : s[k] \in Digits

Zoom(p) ==
  LET given == IF p = <<>> THEN <<"1", "0", "0", "%">> ELSE p
  IN  IF given = Contains THEN <<"1", "0", "0", "%">> ELSE given

ZoomRaises(p) == ~IntParses(Strip(Zoom(p)))

VARIABLES
  corpus,          \* the examples' specifications as the current pass reads them
  hash_file,       \* the persisted ledger _image_hashes.json
  image_file,      \* <name>.png of each example
  thumb_file,      \* whether <name>-thumb.png exists
  pc,              \* "idle", "loop", "saving", "done", "error"
  raised,          \* where the uncaught exception of an aborted pass came from
  can_save,        \* the renderer-availability flag
  hashes,          \* the in-memory ledger
  idx,             \* the example the loop is at
  make_thumbnails, \* the pass's thumbnail flag
  passes,          \* number of passes started
  loaded,          \* the persisted ledger file as the pass found it
  path,            \* what the pass did with each example
  calls,           \* the renderer invocations of the pass, in order
  writes,          \* the files written for each example in the pass
  owed,            \* fell back in the previous pass, specification unchanged
  thumbsAlways     \* every completed pass so far requested thumbnails

vars == << passes, corpus, hash_file, image_file, thumb_file, pc, raised, can_save,
           hashes, idx, make_thumbnails, loaded, path, calls, writes, owed,
           thumbsAlways >>

disk == << hash_file, image_file, thumb_file >>

Init ==
  /\ corpus \in [Examples -> Specs]
  /\ hash_file = NoFile
  /\ image_file = [e \in Examples |-> Absent]
  /\ thumb_file = [e \in Examples |-> FALSE]
  /\ pc = "idle"
  /\ raised = "none"
  /\ can_save = FALSE
  /\ hashes = EmptyLedger
  /\ idx = 1
  /\ make_thumbnails = TRUE
  /\ passes = 0
  /\ loaded = NoFile
  /\ path = [e \in Examples |-> "none"]
  /\ calls = <<>>
  /\ writes = [e \in Examples |-> {}]
  /\ owed = [e \in Examples |-> FALSE]
  /\ thumbsAlways = TRUE

\* ------------------------------------------------------------ pass start
FellBack(e) == path[e] \in {"fail", "unavail"}

\* The per-pass part of a new invocation: a fresh availability check, the
\* examples read fresh from the provider.
Enter(avail, thumbs, examples) ==
  /\ pc \in {"idle", "done", "error"}
  /\ passes < MaxPasses
  /\ passes' = passes + 1
  /\ can_save' = avail
  /\ make_thumbnails' = thumbs
  /\ corpus' = examples
  /\ loaded' = hash_file
  /\ idx' = 1
  /\ path' = [e \in Examples |-> "none"]
  /\ calls' = <<>>
  /\ writes' = [e \in Examples |-> {}]
  /\ owed' = [e \in Examples |-> FellBack(e) /\ examples[e] = corpus[e]]
  /\ UNCHANGED << disk, thumbsAlways >>

\* json.load on the ledger file, when it exists.
LoadRaises(file) == file.state = "corrupt"
LoadedLedger(file) == IF file.state = "ok" THEN file.data ELSE EmptyLedger

StartPass ==
  \E avail \in BOOLEAN, thumbs \in BOOLEAN, examples \in [Examples -> Specs] :
    /\ Enter(avail, thumbs, examples)
    /\ ~LoadRaises(hash_file)
    /\ hashes' = LoadedLedger(hash_file)
    /\ pc' = "loop"
    /\ raised' = "none"

StartPassLoadRaises ==
  \E avail \in BOOLEAN, thumbs \in BOOLEAN, examples \in [Examples -> Specs] :
    /\ Enter(avail, thumbs, examples)
    /\ LoadRaises(hash_file)
    /\ hashes' = EmptyLedger
    /\ pc' = "error"
    /\ raised' = "json.load"

\* ------------------------------------------------------------- loop body
\* the staleness test dropped: every example is regenerated
UpToDate_never(ledger, e, spec) == FALSE

\* hashes.get(filename, '') == spec_hash
UpToDate(ledger, e, spec) == Get(ledger, e) = dict_hash(spec)

\* the existence test dropped: the placeholder is always copied
NoImage_always(files, e) == TRUE

\* not os.path.exists(image_file)
NoImage(files, e) == files[e].kind = "absent"

\* if not os.path.exists(image_file): shutil.copyfile(default_image, image_file)
copy_default(files, e) ==
  IF NoImage(files, e) THEN [files EXCEPT ![e] = Placeholder] ELSE files

\* The image step of one example that needs regeneration; result is what
\* the renderer did: "ok", "CalledProcessError", or "unavailable" when
\* can_save was already false and the renderer was not invoked.
image_after(result, files, e, spec) ==
  IF result = "ok" THEN [files EXCEPT ![e] = Rendered(spec)]
  ELSE copy_default(files, e)

\* the ledger update dropped
hashes_after_never(result, ledger, e, spec_hash) == ledger

\* the ledger updated outside the else branch of the try
hashes_after_always(result, ledger, e, spec_hash) ==
  [ledger EXCEPT ![e] = spec_hash]

hashes_after(result, ledger, e, spec_hash) ==
  IF result = "ok" THEN [ledger EXCEPT ![e] = spec_hash] ELSE ledger

\* can_save = False dropped from the except branch
can_save_after_keep(result, flag) == flag

can_save_after(result, flag) ==
  IF result = "CalledProcessError" THEN FALSE ELSE flag

image_writes(result, files, e) ==
  IF result = "ok" THEN {"image"}
  ELSE IF NoImage(files, e) THEN {"placeholder"} ELSE {}

\* the thumbnail call dropped
thumbs_after_none(flag, thumbs, e) == thumbs

\* create_thumbnail(image_file, thumb_file, zoom=zoom), when requested
thumbs_after(flag, thumbs, e) ==
  IF flag THEN [thumbs EXCEPT ![e] = TRUE] ELSE thumbs

PathOf(result) ==
  CASE result = "ok" -> "render"
    [] result = "CalledProcessError" -> "fail"
    [] OTHER -> "unavail"

InLoop == pc = "loop" /\ idx \in Examples

\* if hashes.get(filename, '') == spec_hash: continue
Skip ==
  /\ InLoop
  /\ UpToDate(hashes, idx, corpus[idx])
  /\ idx' = idx + 1
  /\ path' = [path EXCEPT ![idx] = "skip"]
  /\ UNCHANGED << passes, corpus, disk, pc, raised, can_save, hashes,
                  make_thumbnails, loaded, calls, writes, owed, thumbsAlways >>

Regenerate(result, p) ==
  LET e == idx
      spec == corpus[e]
      zoomRaises == make_thumbnails /\ ZoomRaises(p)
      imgw == image_writes(result, image_file, e)
  IN  /\ InLoop
      /\ ~UpToDate(hashes, e, spec)
      /\ image_file' = image_after(result, image_file, e, spec)
      /\ hashes' = hashes_after(result, hashes, e, dict_hash(spec))
      /\ can_save' = can_save_after(result, can_save)
      /\ calls' = IF result = "unavailable" THEN calls
                  ELSE Append(calls, [ex |-> e, res |-> result])
      /\ path' = [path EXCEPT ![e] = PathOf(result)]
      /\ IF zoomRaises
           THEN /\ pc' = "error"
                /\ raised' = "convert_pct"
                /\ idx' = idx
                /\ thumb_file' = thumb_file
                /\ writes' = [writes EXCEPT ![e] = @ \cup imgw]
           ELSE /\ pc' = pc
                /\ raised' = raised
                /\ idx' = idx + 1
                /\ thumb_file' = thumbs_after(make_thumbnails, thumb_file, e)
                /\ writes' = [writes EXCEPT ![e] = @ \cup imgw \cup
                                (IF make_thumbnails THEN {"thumb"} ELSE {})]
      /\ UNCHANGED << passes, corpus, hash_file, make_thumbnails, loaded,
                      owed, thumbsAlways >>

\* chart.savechart(image_file) succeeded
RenderOk == \E p \in ZoomParams : can_save /\ Regenerate("ok", p)

\* chart.savechart(image_file) raised CalledProcessError
RenderFails ==
  \E p \in ZoomParams : can_save /\ Regenerate("CalledProcessError", p)

\* elif not os.path.exists(image_file): ...
RendererUnavailable ==
  \E p \in ZoomParams : ~can_save /\ Regenerate("unavailable", p)

\* Chart.from_dict / chart.savechart raised anything but CalledProcessError
RenderRaises ==
  /\ InLoop
  /\ ~UpToDate(hashes, idx, corpus[idx])
  /\ can_save
  /\ calls' = Append(calls, [ex |-> idx, res |-> "OtherError"])
  /\ path' = [path EXCEPT ![idx] = "raise"]
  /\ pc' = "error"
  /\ raised' = "savechart"
  /\ UNCHANGED << passes, corpus, disk, can_save, hashes, idx,
                  make_thumbnails, loaded, writes, owed, thumbsAlways >>

\* ------------------------------------------------------------- pass end
AtEnd == pc = "loop" /\ idx = NumExamples + 1

\* if hashes: [false]
SkipSave ==
  /\ AtEnd
  /\ ~NonEmpty(hashes)
  /\ pc' = "done"
  /\ thumbsAlways' = (thumbsAlways /\ make_thumbnails)
  /\ UNCHANGED << passes, corpus, disk, raised, can_save, hashes, idx,
                  make_thumbnails, loaded, path, calls, writes, owed >>

\* with open(hash_file, 'w') as f:   -- mode 'w' truncates the file
OpenForWrite ==
  /\ AtEnd
  /\ NonEmpty(hashes)
  /\ hash_file' = Truncated
  /\ pc' = "saving"
  /\ UNCHANGED << passes, corpus, image_file, thumb_file, raised, can_save,
                  hashes, idx, make_thumbnails, loaded, path, calls, writes,
                  owed, thumbsAlways >>

\* json.dump(hashes, f) and the close of the file
Dump ==
  /\ pc = "saving"
  /\ hash_file' = Saved(hashes)
  /\ pc' = "done"
  /\ thumbsAlways' = (thumbsAlways /\ make_thumbnails)
  /\ UNCHANGED << passes, corpus, image_file, thumb_file, raised, can_save,
                  hashes, idx, make_thumbnails, loaded, path, calls, writes,
                  owed >>

\* the write raised an I/O error: the file stays as the open left it
DumpRaises ==
  /\ pc = "saving"
  /\ pc' = "error"
  /\ raised' = "json.dump"
  /\ UNCHANGED << passes, corpus, disk, can_save, hashes, idx,
                  make_thumbnails, loaded, path, calls, writes, owed,
                  thumbsAlways >>

Next ==
  \/ StartPass
  \/ StartPassLoadRaises
  \/ Skip
  \/ RenderOk
  \/ RenderFails
  \/ RendererUnavailable
  \/ RenderRaises
  \/ SkipSave
  \/ OpenForWrite
  \/ Dump
  \/ DumpRaises

Spec == Init /\ [][Next]_vars
\* ---------------------------------------------------------------- claims
SpecHash(e) == dict_hash(corpus[e])
Count(e) == Cardinality({ k \in DOMAIN calls : calls[k].ex = e })

\* C1: an example whose ledger entry equals the hash of its current
\* specification is skipped entirely: no renderer call, no image,
\* placeholder or thumbnail written, the ledger left as it is.
C1_SkipTouchesNothing ==
  [][ \A e \in Examples :
        (pc = "loop" /\ idx = e /\ hashes[e] = SpecHash(e))
          => /\ calls' = calls
             /\ writes' = writes
             /\ image_file' = image_file
             /\ thumb_file' = thumb_file
             /\ hashes' = hashes
             /\ hash_file' = hash_file ]_vars

C1_Witness ==
  \E e \in Examples :
    path[e] = "skip" /\ hashes[e] = SpecHash(e) /\ image_file[e].kind = "rendered"

\* C2: after a successful render of a stale example the in-memory ledger
\* holds the new hash for it, and so does the ledger file once the pass has
\* completed.
C2_RenderRecordsHash ==
  \A e \in Examples :
    path[e] = "render"
      => /\ hashes[e] = SpecHash(e)
         /\ pc = "done" => (hash_file.state = "ok" /\ hash_file.data[e] = SpecHash(e))

C2_Witness ==
  \E e \in Examples :
    /\ pc = "done"
    /\ path[e] = "render"
    /\ loaded.state = "ok"
    /\ loaded.data[e] \notin {NoEntry, SpecHash(e)}
    /\ hash_file.data[e] = SpecHash(e)

\* C3: a failed renderer invocation is the last invocation of its pass, and
\* every later example that needs regeneration takes the placeholder path.
C3_NoRenderAfterFailure ==
  \A k \in DOMAIN calls :
    calls[k].res = "CalledProcessError"
      => /\ k = Len(calls)
         /\ \A e \in Examples :
              (e > calls[k].ex /\ path[e] \notin {"none", "skip"})
                => path[e] = "unavail"

C3_Witness ==
  \E k \in DOMAIN calls, e \in Examples :
    calls[k].res = "CalledProcessError" /\ e > calls[k].ex /\ path[e] = "unavail"

\* C4: the placeholder is copied to <name>.png exactly when the example
\* falls back and no file is there; an existing image is never replaced by
\* the placeholder.
C4_PlaceholderNeverOverwrites ==
  [][ \A e \in Examples :
        /\ ("placeholder" \in writes'[e] /\ "placeholder" \notin writes[e])
             => (image_file[e] = Absent /\ image_file'[e] = Placeholder)
        /\ (image_file[e] # Absent /\ image_file'[e] # image_file[e])
             => image_file'[e].kind = "rendered"
        /\ (pc = "loop" /\ idx = e /\ path'[e] \in {"fail", "unavail"})
             => IF image_file[e] = Absent
                  THEN image_file'[e] = Placeholder
                  ELSE image_file'[e] = image_file[e] ]_vars

C4_Witness ==
  \E e1, e2 \in Examples :
    /\ FellBack(e1) /\ image_file[e1].kind = "rendered"
    /\ FellBack(e2) /\ "placeholder" \in writes[e2] /\ image_file[e2] = Placeholder

\* C5: a pass that finds the ledger file absent or corrupt does not end in
\* an error from loading it; it starts from the empty ledger.
C5_LoadNeverFailsPass ==
  (pc # "idle" /\ loaded.state # "ok")
    => /\ raised # "json.load"
       /\ \A e \in Examples : hashes[e] # NoEntry => path[e] = "render"

\* C6: an entry H for a filename means the image of that filename was last
\* produced by a successful render of a specification whose hash is H: for
\* the in-memory ledger always, for the ledger file whenever no pass is
\* running (a pass that is under way has not yet had its chance to save).
AtRest == pc \in {"idle", "done", "error"}

ProducedFrom(e, h) ==
  image_file[e].kind = "rendered" /\ dict_hash(image_file[e].src) = h

C6_LedgerInvariant ==
  \A e \in Examples :
    /\ hashes[e] # NoEntry => ProducedFrom(e, hashes[e])
    /\ (AtRest /\ hash_file.state = "ok" /\ hash_file.data[e] # NoEntry)
         => ProducedFrom(e, hash_file.data[e])

\* C7 as stated: after a completed pass that requested thumbnails every
\* example has its thumbnail and its full image.
C7_ThumbnailForEveryExample ==
  (pc = "done" /\ make_thumbnails)
    => \A e \in Examples : thumb_file[e] /\ image_file[e] # Absent

\* C7 amended: the same, when every completed pass so far requested
\* thumbnails.
C7_ThumbnailsWhenAlwaysRequested ==
  (pc = "done" /\ thumbsAlways)
    => \A e \in Examples : thumb_file[e] /\ image_file[e] # Absent

C7_Witness ==
  /\ pc = "done"
  /\ thumbsAlways
  /\ loaded.state = "ok"
  /\ \E e \in Examples : path[e] = "skip" /\ thumb_file[e]

\* C8: whenever a pass has ended, normally or on an error, the ledger file
\* holds what the pass found there or the complete final in-memory ledger,
\* which is then non-empty.
C8_AtomicOverwrite ==
  pc \in {"done", "error"}
    => \/ hash_file = loaded
       \/ NonEmpty(hashes) /\ hash_file = Saved(hashes)

\* C9: in a completed pass whose renderer was available and never failed,
\* the renderer ran once for each example with a missing or stale entry and
\* not at all for the others; from an empty ledger that is one call per
\* example and a saved ledger with one entry per example.
C9_ExactRenderCounts ==
  (pc = "done" /\ can_save /\ \A k \in DOMAIN calls : calls[k].res = "ok")
    => /\ \A e \in Examples :
            Count(e) = IF loaded.data[e] = SpecHash(e) THEN 0 ELSE 1
       /\ ~NonEmpty(loaded.data)
            => /\ Len(calls) = NumExamples
               /\ hash_file.state = "ok"
               /\ Cardinality(Entries(hash_file.data)) = NumExamples

C9_Witness ==
  /\ pc = "done"
  /\ can_save
  /\ \E e1, e2 \in Examples :
       /\ path[e1] = "skip" /\ Count(e1) = 0
       /\ path[e2] = "render" /\ Count(e2) = 1 /\ loaded.data[e2] # NoEntry

\* C10: an example that fell back to the placeholder path is not recorded
\* as up to date, in memory or in the saved ledger, and when the next pass
\* reaches it with the renderer available and the specification unchanged,
\* the renderer is invoked for it.
C10_FallbackIsRetried ==
  /\ [](\A e \in Examples :
          FellBack(e)
            => /\ hashes[e] # SpecHash(e)
               /\ hash_file.state = "ok" => hash_file.data[e] # SpecHash(e))
  /\ [][ \A e \in Examples :
           (pc = "loop" /\ idx = e /\ owed[e] /\ can_save)
             => /\ Len(calls') = Len(calls) + 1
                /\ calls'[Len(calls')].ex = e ]_vars

C10_Witness ==
  \E e \in Examples :
    owed[e] /\ path[e] = "render" /\ image_file[e] = Rendered(corpus[e])
====
